---------------------------- MODULE Spec2Model ----------------------------
(***************************************************************************)
(* Model of src/lib.rs (topological-sort): TopologicalSort<T>, a           *)
(* HashMap<T, Dependency<T>> with Dependency = { num_prec, succ }.         *)
(*                                                                         *)
(* A map is a TLA+ function whose DOMAIN is the set of tracked keys.       *)
(* A Vec / Option result is a sequence (<<>> is None or the empty vector). *)
(* HashMap iteration order is unspecified: wherever the code iterates the  *)
(* map, the model chooses the order nondeterministically.                  *)
(***************************************************************************)
EXTENDS Integers, Sequences, FiniteSets, TLC

\* Number of distinct element values T ranges over.
MaxElem == 3

Elems == 1..MaxElem

VARIABLES
    top,        \* TopologicalSort.top : HashMap<T, Dependency<T>>
    last,       \* the last public call: [op, a, b, retb, retv] (arguments, results)
    underflow,  \* some `num_prec -= 1` ran on a zero count (debug: panic, release: wrap)
    phase,      \* driver position of the build-then-extract scenario
    built,      \* value of top when extraction started
    hist,       \* calls made since extraction started: sequence of [op, ret]
    returned    \* per element, how often pop / pop_all returned it: 0, 1, or 2 for more

vars == <<top, last, underflow, phase, built, hist, returned>>

-----------------------------------------------------------------------------
(* Data structure                                                          *)

\* Dependency::new()
DependencyNew == [num_prec |-> 0, succ |-> {}]

\* TopologicalSort::new(): the empty map (a function with empty domain).
new == [x \in {} |-> DependencyNew]

\* HashMap insert of key k with value v (Entry::Vacant / into_mut write-back).
SetEntry(t, k, v) == [x \in (DOMAIN t) \cup {k} |-> IF x = k THEN v ELSE t[x]]

len(t) == Cardinality(DOMAIN t)

is_empty(t) == DOMAIN t = {}

\* add_dependency without the "Already registered" early return.
add_dependency_no_return(t, prec, succ) ==
    LET t1 == IF prec \notin DOMAIN t
              THEN SetEntry(t, prec, [num_prec |-> 0, succ |-> {succ}])
              ELSE SetEntry(t, prec, [t[prec] EXCEPT !.succ = @ \cup {succ}])
    IN  IF succ \notin DOMAIN t1
        THEN SetEntry(t1, succ, [num_prec |-> 1, succ |-> {}])
        ELSE [t1 EXCEPT ![succ].num_prec = @ + 1]

\* add_dependency that only increments an existing successor entry and never
\* creates one (`if let Some(y) = self.top.get_mut(&succ)`).
add_dependency_no_succ_entry(t, prec, succ) ==
    LET vacant == prec \notin DOMAIN t
        already == ~vacant /\ succ \in t[prec].succ
        t1 == IF vacant
              THEN SetEntry(t, prec, [num_prec |-> 0, succ |-> {succ}])
              ELSE SetEntry(t, prec, [t[prec] EXCEPT !.succ = @ \cup {succ}])
    IN  IF already \/ succ \notin DOMAIN t1
        THEN t1
        ELSE [t1 EXCEPT ![succ].num_prec = @ + 1]

\* add_dependency that forgets `num_prec += 1` on an occupied successor entry.
add_dependency_no_increment(t, prec, succ) ==
    LET vacant == prec \notin DOMAIN t
        already == ~vacant /\ succ \in t[prec].succ
        t1 == IF vacant
              THEN SetEntry(t, prec, [num_prec |-> 0, succ |-> {succ}])
              ELSE SetEntry(t, prec, [t[prec] EXCEPT !.succ = @ \cup {succ}])
    IN  IF already
        THEN t
        ELSE IF succ \notin DOMAIN t1
             THEN SetEntry(t1, succ, [num_prec |-> 1, succ |-> {}])
             ELSE t1

\* add_dependency(prec, succ): value of top after the call.
\*   first match: entry(prec) vacant -> new Dependency with succ = {succ};
\*                occupied -> succ.insert(succ), return if it was present.
\*   second match: entry(succ) vacant -> new Dependency with num_prec = 1;
\*                 occupied -> num_prec += 1.
add_dependency(t, prec, succ) ==
    LET vacant == prec \notin DOMAIN t
        already == ~vacant /\ succ \in t[prec].succ
        t1 == IF vacant
              THEN SetEntry(t, prec, [num_prec |-> 0, succ |-> {succ}])
              ELSE SetEntry(t, prec, [t[prec] EXCEPT !.succ = @ \cup {succ}])
    IN  IF already
        THEN t
        ELSE IF succ \notin DOMAIN t1
             THEN SetEntry(t1, succ, [num_prec |-> 1, succ |-> {}])
             ELSE [t1 EXCEPT ![succ].num_prec = @ + 1]

\* insert that overwrites an occupied entry with a fresh Dependency.
insert_overwrite(t, elt) ==
    [top |-> SetEntry(t, elt, DependencyNew), ret |-> elt \notin DOMAIN t]

\* insert(elt): [top after the call, returned bool].
insert(t, elt) ==
    IF elt \notin DOMAIN t
    THEN [top |-> SetEntry(t, elt, DependencyNew), ret |-> TRUE]
    ELSE [top |-> t, ret |-> FALSE]

\* remove that forgets to decrement the successors' counts.
remove_no_decrement(t, prec) ==
    IF prec \notin DOMAIN t
    THEN [top |-> t, found |-> FALSE, underflow |-> FALSE]
    ELSE [top |-> [x \in (DOMAIN t) \ {prec} |-> t[x]],
          found |-> TRUE, underflow |-> FALSE]

\* remove(prec): [top after the call, whether an entry was removed, whether a
\* decrement ran on a zero count].  The successors of the removed record are
\* distinct keys, so the order of the loop over p.succ does not matter.
\* num_prec is a usize: `-= 1` on 0 panics in a debug build and wraps in a
\* release build.  The model keeps the wrapped value as -1 (arithmetic modulo
\* 2^64 agrees with integer arithmetic for +1, -1 and the test == 0 on the
\* counts this model can reach) and reports the event in `underflow`.
remove(t, prec) ==
    IF prec \notin DOMAIN t
    THEN [top |-> t, found |-> FALSE, underflow |-> FALSE]
    ELSE LET p  == t[prec]
             t1 == [x \in (DOMAIN t) \ {prec} |-> t[x]]
         IN  [top |-> [x \in DOMAIN t1 |->
                          IF x \in p.succ
                          THEN [t1[x] EXCEPT !.num_prec = @ - 1]
                          ELSE t1[x]],
              found |-> TRUE,
              underflow |-> \E x \in (DOMAIN t1) \cap p.succ : t1[x].num_prec = 0]

\* The filter with an off-by-one test, `v.num_prec <= 1`.
Ready_off_by_one(t) == {k \in DOMAIN t : t[k].num_prec <= 1}

\* The keys passing `.filter(|&(_, v)| v.num_prec == 0)`.
Ready(t) == {k \in DOMAIN t : t[k].num_prec = 0}

\* The orders in which iterating the map can yield the keys of S.
IterOrders(S) ==
    {f \in [1..Cardinality(S) -> S] : \A i, j \in 1..Cardinality(S) : i # j => f[i] # f[j]}

\* The filter testing the successor set instead of the count,
\* `.filter(|&(_, v)| v.succ.is_empty())`.
FirstReady_no_successors(t) ==
    LET S == {k \in DOMAIN t : t[k].succ = {}}
    IN  IF S = {} THEN {<<>>} ELSE {<<k>> : k \in S}

\* The possible values of `.iter().filter(|&(_, v)| v.num_prec == 0).next()`:
\* None when no key is ready, else Some(k) for the ready key the map yields first.
FirstReady(t) == IF Ready(t) = {} THEN {<<>>} ELSE {<<k>> : k \in Ready(t)}

\* pop that returns the key without removing it.
pop_keep(t, found) == [top |-> t, ret |-> found, underflow |-> FALSE]

\* pop when the filtered iterator yields `found`: None -> None;
\* Some(key) -> remove(&key), return Some(key).
pop(t, found) ==
    IF found = <<>>
    THEN [top |-> t, ret |-> <<>>, underflow |-> FALSE]
    ELSE LET r == remove(t, found[1])
         IN  [top |-> r.top, ret |-> found, underflow |-> r.underflow]

\* `for k in keys.iter() { remove(k) }` from position i on.
RECURSIVE RemoveEach(_, _, _)
RemoveEach(t, keys, i) ==
    IF i > Len(keys)
    THEN [top |-> t, underflow |-> FALSE]
    ELSE LET r    == remove(t, keys[i])
             rest == RemoveEach(r.top, keys, i + 1)
         IN  [top |-> rest.top, underflow |-> r.underflow \/ rest.underflow]

\* pop_all that recomputes the ready keys after each removal instead of
\* removing the snapshot taken before the first removal.
RECURSIVE DrainReady(_, _)
DrainReady(t, acc) ==
    IF Ready(t) = {}
    THEN [top |-> t, ret |-> acc, underflow |-> FALSE]
    ELSE LET k == CHOOSE x \in Ready(t) : TRUE
         IN  DrainReady(remove(t, k).top, Append(acc, k))

pop_all_no_snapshot(t, keys) == DrainReady(t, <<>>)

\* pop_all when iterating the map yields the ready keys in the order `keys`:
\* collect the snapshot, remove each, return the snapshot.
pop_all(t, keys) ==
    LET r == RemoveEach(t, keys, 1)
    IN  [top |-> r.top, ret |-> keys, underflow |-> r.underflow]

-----------------------------------------------------------------------------
(* Public calls in any order                                               *)

NoCall == [op |-> "new", a |-> 0, b |-> 0, retb |-> FALSE, retv |-> <<>>]

Init ==
    /\ top = new
    /\ last = NoCall
    /\ underflow = FALSE
    /\ phase = "build"
    /\ built = new
    /\ hist = <<>>
    /\ returned = [e \in Elems |-> 0]

Insert(elt) ==
    LET r == insert(top, elt)
    IN  /\ top' = r.top
        /\ last' = [op |-> "insert", a |-> elt, b |-> 0, retb |-> r.ret, retv |-> <<>>]
        /\ UNCHANGED <<underflow, phase, built, hist, returned>>

AddDependency(prec, succ) ==
    /\ top' = add_dependency(top, prec, succ)
    /\ last' = [op |-> "add_dependency", a |-> prec, b |-> succ, retb |-> FALSE, retv |-> <<>>]
    /\ UNCHANGED <<underflow, phase, built, hist, returned>>

Pop ==
    \E found \in FirstReady(top) :
        LET r == pop(top, found)
        IN  /\ top' = r.top
            /\ last' = [op |-> "pop", a |-> 0, b |-> 0, retb |-> FALSE, retv |-> r.ret]
            /\ underflow' = (underflow \/ r.underflow)
            /\ UNCHANGED <<phase, built, hist, returned>>

PopAll ==
    /\ \E keys \in IterOrders(Ready(top)) :
            LET r == pop_all(top, keys)
            IN  /\ top' = r.top
                /\ last' = [op |-> "pop_all", a |-> 0, b |-> 0, retb |-> FALSE, retv |-> r.ret]
                /\ underflow' = (underflow \/ r.underflow)
    /\ UNCHANGED <<phase, built, hist, returned>>

Next ==
    \/ \E elt \in Elems : Insert(elt)
    \/ \E prec, succ \in Elems : AddDependency(prec, succ)
    \/ Pop
    \/ PopAll

Spec == Init /\ [][Next]_vars

-----------------------------------------------------------------------------
(* Build a graph with insert / add_dependency, then extract until the      *)
(* first empty result (`while let Some(x) = ts.next()`, or pop_all until   *)
(* it returns an empty vector), as the tests and the doc example do.       *)

BuildInsert(elt) ==
    /\ phase = "build"
    /\ top' = insert(top, elt).top
    /\ UNCHANGED <<last, underflow, phase, built, hist, returned>>

BuildAddDependency(prec, succ) ==
    /\ phase = "build"
    /\ top' = add_dependency(top, prec, succ)
    /\ UNCHANGED <<last, underflow, phase, built, hist, returned>>

StartExtraction ==
    /\ phase = "build"
    /\ phase' = "extract"
    /\ built' = top
    /\ UNCHANGED <<top, last, underflow, hist, returned>>

\* The caller stops at the first None / empty vector.
Stopped == \E i \in 1..Len(hist) : hist[i].ret = <<>>

ExtractPop ==
    /\ phase = "extract"
    /\ ~Stopped
    /\ \E found \in FirstReady(top) :
            LET r == pop(top, found)
            IN  /\ top' = r.top
                /\ hist' = Append(hist, [op |-> "pop", ret |-> r.ret])
                /\ underflow' = (underflow \/ r.underflow)
    /\ UNCHANGED <<last, phase, built, returned>>

ExtractPopAll ==
    /\ phase = "extract"
    /\ ~Stopped
    /\ \E keys \in IterOrders(Ready(top)) :
            LET r == pop_all(top, keys)
            IN  /\ top' = r.top
                /\ hist' = Append(hist, [op |-> "pop_all", ret |-> r.ret])
                /\ underflow' = (underflow \/ r.underflow)
    /\ UNCHANGED <<last, phase, built, returned>>

ExtractNext ==
    \/ \E elt \in Elems : BuildInsert(elt)
    \/ \E prec, succ \in Elems : BuildAddDependency(prec, succ)
    \/ StartExtraction
    \/ ExtractPop
    \/ ExtractPopAll

ExtractSpec == Init /\ [][ExtractNext]_vars

-----------------------------------------------------------------------------
(* from_iter, then sequential extraction (`ts.next()` until None), as in   *)
(* test::from_iter.                                                        *)

\* Longest input sequence given to from_iter.
MaxLen == 4

\* partial_cmp with `<=` in place of `<`: equal items compare as Less.
partial_cmp_le(a, b) == IF a <= b THEN "Less" ELSE "Greater"

\* i32::partial_cmp: Some(Less), Some(Equal) or Some(Greater); never None.
partial_cmp(a, b) == IF a < b THEN "Less" ELSE IF a > b THEN "Greater" ELSE "Equal"

\* `for seen_item in seen.iter().cloned() { match seen_item.partial_cmp(&item) .. }`
\* from position j on.
RECURSIVE CompareSeen(_, _, _, _)
CompareSeen(t, seen, item, j) ==
    IF j > Len(seen)
    THEN t
    ELSE LET seen_item == seen[j]
             c  == partial_cmp(seen_item, item)
             t1 == IF c = "Less" THEN add_dependency(t, seen_item, item)
                   ELSE IF c = "Greater" THEN add_dependency(t, item, seen_item)
                   ELSE t
         IN  CompareSeen(t1, seen, item, j + 1)

\* `for item in iter { insert; compare with seen; seen.push(item) }` from
\* position i on.
RECURSIVE FromIterLoop(_, _, _, _)
FromIterLoop(t, seen, items, i) ==
    IF i > Len(items)
    THEN t
    ELSE LET item == items[i]
             t1 == insert(t, item).top
             t2 == CompareSeen(t1, seen, item, 1)
         IN  FromIterLoop(t2, Append(seen, item), items, i + 1)

\* TopologicalSort::from_iter(items)
from_iter(items) == FromIterLoop(new, <<>>, items, 1)

\* The input sequences: every sequence of at most MaxLen element values.
Inputs == UNION {[1..n -> Elems] : n \in 0..MaxLen}

FromIter(items) ==
    /\ phase = "build"
    /\ top' = from_iter(items)
    /\ built' = top'
    /\ phase' = "extract"
    /\ last' = [op |-> "from_iter", a |-> items, b |-> 0, retb |-> FALSE, retv |-> <<>>]
    /\ UNCHANGED <<underflow, hist, returned>>

FromIterNext ==
    \/ \E items \in Inputs : FromIter(items)
    \/ ExtractPop

FromIterSpec == Init /\ [][FromIterNext]_vars

-----------------------------------------------------------------------------
(* Public calls in any order, with a count of how often each element was   *)
(* returned.                                                               *)

\* Number of element values in the runs that count returns.
MaxLifeElem == 2

LifeElems == 1..MaxLifeElem

\* The counts after a call returned `ret` (2 stands for "more than once").
Count(c, ret) ==
    [e \in DOMAIN c |->
        LET n == c[e] + Cardinality({i \in 1..Len(ret) : ret[i] = e})
        IN  IF n > 2 THEN 2 ELSE n]

LifeInsert(elt) ==
    LET r == insert(top, elt)
    IN  /\ top' = r.top
        /\ last' = [op |-> "insert", a |-> elt, b |-> 0, retb |-> r.ret, retv |-> <<>>]
        /\ UNCHANGED <<underflow, phase, built, hist, returned>>

LifeAddDependency(prec, succ) ==
    /\ top' = add_dependency(top, prec, succ)
    /\ last' = [op |-> "add_dependency", a |-> prec, b |-> succ, retb |-> FALSE, retv |-> <<>>]
    /\ UNCHANGED <<underflow, phase, built, hist, returned>>

LifePop ==
    \E found \in FirstReady(top) :
        LET r == pop(top, found)
        IN  /\ top' = r.top
            /\ last' = [op |-> "pop", a |-> 0, b |-> 0, retb |-> FALSE, retv |-> r.ret]
            /\ underflow' = (underflow \/ r.underflow)
            /\ returned' = Count(returned, r.ret)
            /\ UNCHANGED <<phase, built, hist>>

LifePopAll ==
    \E keys \in IterOrders(Ready(top)) :
        LET r == pop_all(top, keys)
        IN  /\ top' = r.top
            /\ last' = [op |-> "pop_all", a |-> 0, b |-> 0, retb |-> FALSE, retv |-> r.ret]
            /\ underflow' = (underflow \/ r.underflow)
            /\ returned' = Count(returned, r.ret)
            /\ UNCHANGED <<phase, built, hist>>

LifeNext ==
    \/ \E elt \in LifeElems : LifeInsert(elt)
    \/ \E prec, succ \in LifeElems : LifeAddDependency(prec, succ)
    \/ LifePop
    \/ LifePopAll

LifeSpec == Init /\ [][LifeNext]_vars

-----------------------------------------------------------------------------
(* Vocabulary of the properties                                            *)

\* Tracked elements whose succ set contains x.
Preds(t, x) == {y \in DOMAIN t : x \in t[y].succ}

\* Tracked direct successors of the elements of S.
Succs(t, S) == UNION {t[x].succ \cap DOMAIN t : x \in S}

\* S together with everything reachable from S along registered edges.
RECURSIVE Closure(_, _)
Closure(t, S) ==
    LET n == S \cup Succs(t, S)
    IN  IF n = S THEN S ELSE Closure(t, n)

\* Elements reachable from x by one or more edges.
Descendants(t, x) == Closure(t, Succs(t, {x}))

OnCycle(t, x) == x \in Descendants(t, x)

HasCycle(t) == \E x \in DOMAIN t : OnCycle(t, x)

\* Elements on a cycle or reachable from one.
CycleBound(t) == Closure(t, {x \in DOMAIN t : OnCycle(t, x)})

\* The elements of a sequence.
Range(q) == {q[i] : i \in 1..Len(q)}

IsPopCall == last.op = "pop"

IsPopAllCall == last.op = "pop_all"

-----------------------------------------------------------------------------
(* Properties, public calls in any order (Spec)                            *)

\* C1: in every state reachable by insert, add_dependency, pop and pop_all
\* from new(), each tracked element's num_prec equals the number of tracked
\* elements whose succ set contains it.
C1_InDegreeConsistent ==
    \A x \in DOMAIN top : top[x].num_prec = Cardinality(Preds(top, x))

\* C1 witness: after a pop removed a predecessor, an element still tracked
\* has one remaining tracked predecessor and another element became ready.
C1_Witness ==
    /\ IsPopCall
    /\ last.retv # <<>>
    /\ \E x \in DOMAIN top : top[x].num_prec = 1 /\ Preds(top, x) # {}
    /\ \E y \in DOMAIN top : top[y].num_prec = 0 /\ top[y].succ # {}

\* C2: every element returned by a pop or pop_all step is, in the state the
\* call starts from, tracked, has num_prec zero and is in the succ set of no
\* tracked element.
C2_ReturnedAreReady ==
    [][ (last'.op \in {"pop", "pop_all"}) =>
            \A e \in Range(last'.retv) :
                /\ e \in DOMAIN top
                /\ top[e].num_prec = 0
                /\ Preds(top, e) = {} ]_vars

\* C2 witness: a pop_all returned two elements and left behind a third that
\* is ready only now, so it had a tracked predecessor when the call began.
C2_Witness ==
    /\ IsPopAllCall
    /\ Len(last.retv) = 2
    /\ \E x \in DOMAIN top : x \notin Range(last.retv) /\ top[x].num_prec = 0

\* C5: one pop_all step returns exactly the elements whose num_prec was zero
\* when the call began, each once; no returned element is a successor of
\* another returned element; exactly the returned elements are removed and
\* len() drops by the number of returned elements.
C5_PopAllSnapshot ==
    [][ (last'.op = "pop_all") =>
            /\ Range(last'.retv) = {k \in DOMAIN top : top[k].num_prec = 0}
            /\ Len(last'.retv) = Cardinality(Range(last'.retv))
            /\ \A e, f \in Range(last'.retv) : f \notin top[e].succ
            /\ DOMAIN top' = (DOMAIN top) \ Range(last'.retv)
            /\ len(top') = len(top) - Len(last'.retv) ]_vars

\* C5 witness: a pop_all returned two elements and the element it left is a
\* successor that the removals made ready, yet it is not part of the result.
C5_Witness ==
    /\ IsPopAllCall
    /\ Len(last.retv) = 2
    /\ len(top) = 1
    /\ \A x \in DOMAIN top : top[x].num_prec = 0

\* C6: if pop returned None or pop_all returned an empty vector while len()
\* is not 0, every remaining element has a tracked predecessor and the
\* remaining edges contain a directed cycle.
C6_StallMeansCycle ==
    (last.op \in {"pop", "pop_all"} /\ last.retv = <<>> /\ len(top) # 0) =>
        /\ \A x \in DOMAIN top : Preds(top, x) # {}
        /\ HasCycle(top)

\* C6 witness: pop returned None on a graph of three elements whose cycle is
\* not a self-loop and which has an element off the cycle.
C6_Witness ==
    /\ IsPopCall
    /\ last.retv = <<>>
    /\ len(top) = 3
    /\ \A x \in DOMAIN top : x \notin top[x].succ
    /\ \E x \in DOMAIN top : ~OnCycle(top, x)

\* C9: add_dependency is idempotent per edge: in every state reached by a call
\* add_dependency(p, s), calling add_dependency(p, s) again leaves the graph
\* identical (same tracked elements, succ sets and num_prec).  Every reachable
\* state and every p, s is covered: each call leads to a state with that `last`.
C9_AddDependencyIdempotent ==
    last.op = "add_dependency" => add_dependency(top, last.a, last.b) = top

\* C9 witness: add_dependency(p, s) was just called on a graph where s has
\* two tracked predecessors (so its count is exactly 2, not more).
C9_Witness ==
    /\ last.op = "add_dependency"
    /\ last.b \in top[last.a].succ
    /\ top[last.b].num_prec = 2
    /\ Cardinality(Preds(top, last.b)) = 2

\* C10: an insert(e) step returns true iff e was not tracked; then e becomes
\* tracked with num_prec 0 and an empty succ set and every other record is
\* unchanged; when it returns false the whole graph is unchanged.
C10_InsertFrame ==
    [][ (last'.op = "insert") =>
            LET e == last'.a
            IN  /\ last'.retb <=> (e \notin DOMAIN top)
                /\ last'.retb =>
                      /\ DOMAIN top' = (DOMAIN top) \cup {e}
                      /\ top'[e] = [num_prec |-> 0, succ |-> {}]
                      /\ \A x \in DOMAIN top : top'[x] = top[x]
                /\ ~last'.retb => top' = top ]_vars

\* C10 witness: insert returned false for an element that has a predecessor
\* and a successor, and both are still recorded.
C10_Witness ==
    /\ last.op = "insert"
    /\ ~last.retb
    /\ top[last.a].num_prec = 1
    /\ top[last.a].succ # {}

-----------------------------------------------------------------------------
(* Properties, build then extract (ExtractSpec)                            *)

\* The elements returned since extraction started, in the order returned.
RECURSIVE Flatten(_)
Flatten(h) == IF h = <<>> THEN <<>> ELSE Head(h).ret \o Flatten(Tail(h))

PopsOnly == \A i \in 1..Len(hist) : hist[i].op = "pop"

PopAllsOnly == \A i \in 1..Len(hist) : hist[i].op = "pop_all"

\* t consists of exactly the chain c[1] -> c[2] -> ... -> c[n].
IsChain(t, c) ==
    /\ DOMAIN t = Range(c)
    /\ \A i \in 1..Len(c) : t[c[i]].succ = IF i < Len(c) THEN {c[i + 1]} ELSE {}

\* C3: for an acyclic graph built by insert/add_dependency, calling pop until
\* it returns None returns every tracked element exactly once, each only
\* after all of its registered predecessors, and leaves the graph empty; a
\* chain is returned in chain order, followed by None.
C3_PopDrainsInOrder ==
    (phase = "extract" /\ ~HasCycle(built) /\ PopsOnly) =>
        LET order == Flatten(hist)
        IN  /\ Len(order) = Cardinality(Range(order))
            /\ \A i \in 1..Len(order) :
                  Preds(built, order[i]) \subseteq {order[j] : j \in 1..(i - 1)}
            /\ DOMAIN top = (DOMAIN built) \ Range(order)
            /\ Stopped => (is_empty(top) /\ Range(order) = DOMAIN built)
            /\ \A c \in IterOrders(DOMAIN built) :
                  IsChain(built, c) =>
                      /\ order = SubSeq(c, 1, Len(order))
                      /\ Stopped => order = c

\* C3 witness: the chain 1 -> 2 -> 3 was extracted by pop as 1, 2, 3, None.
C3_Witness ==
    /\ phase = "extract"
    /\ IsChain(built, <<1, 2, 3>>)
    /\ PopsOnly
    /\ Stopped
    /\ Flatten(hist) = <<1, 2, 3>>
    /\ Len(hist) = 4

\* C4: for an acyclic graph, repeated pop_all empties the graph within
\* len() + 1 calls, the last of which returns an empty vector, and for every
\* registered edge p -> s the round returning s is not earlier than the round
\* returning p.
C4_PopAllRounds ==
    (phase = "extract" /\ ~HasCycle(built) /\ PopAllsOnly) =>
        /\ Len(hist) <= len(built) + 1
        /\ Stopped => is_empty(top)
        /\ ~is_empty(top) => \E k \in DOMAIN top : top[k].num_prec = 0
        /\ \A s \in DOMAIN built : \A p \in Preds(built, s) :
              \A i \in 1..Len(hist) :
                  s \in Range(hist[i].ret) =>
                      \E j \in 1..i : p \in Range(hist[j].ret)

\* C4 witness: two elements with a common successor were drained in the
\* rounds {p1, p2}, {s}, {}.
C4_Witness ==
    /\ phase = "extract"
    /\ PopAllsOnly
    /\ Len(hist) = 3
    /\ Len(hist[1].ret) = 2
    /\ Len(hist[2].ret) = 1
    /\ hist[3].ret = <<>>
    /\ Preds(built, hist[2].ret[1]) = Range(hist[1].ret)

\* C7 as stated: for a graph containing at least one cycle, pop returns None
\* and pop_all returns an empty vector while len() stays greater than zero.
C7_AsStated ==
    (phase = "extract" /\ HasCycle(built)) =>
        /\ len(top) > 0
        /\ \A i \in 1..Len(hist) : hist[i].ret = <<>>

\* C7 amended: for a graph containing at least one cycle, len() stays
\* greater than zero throughout extraction; pop returns None and pop_all
\* returns an empty vector when every element is on a cycle or reachable
\* from one.
C7_CycleStall ==
    (phase = "extract" /\ HasCycle(built)) =>
        /\ len(top) > 0
        /\ CycleBound(built) = DOMAIN built =>
              \A i \in 1..Len(hist) : hist[i].ret = <<>>

\* C7 witness: on the graph A -> B, B -> A a call returned empty and both
\* elements are still tracked.
C7_Witness ==
    /\ phase = "extract"
    /\ len(built) = 2
    /\ \A x \in DOMAIN built : built[x].succ = (DOMAIN built) \ {x}
    /\ Len(hist) = 1
    /\ hist[1].ret = <<>>
    /\ len(top) = 2

\* C8: a built graph is emptied by repeated pop / pop_all iff it is acyclic.
\* With a cycle, no sequence of calls reaches len() == 0 and no element on a
\* cycle or reachable from one is returned.  Without one, some element is
\* ready while the graph is non-empty, every returned element leaves the
\* graph, and the call that returns empty finds the graph empty.
C8_EmptiesIffAcyclic ==
    phase = "extract" =>
        /\ HasCycle(built) =>
              /\ ~is_empty(top)
              /\ Range(Flatten(hist)) \cap CycleBound(built) = {}
        /\ ~HasCycle(built) =>
              /\ ~is_empty(top) => \E k \in DOMAIN top : top[k].num_prec = 0
              /\ len(top) = len(built) - Len(Flatten(hist))
              /\ Stopped => is_empty(top)

\* C8 witness: extraction of a cyclic graph stopped after returning the one
\* element outside the cycle's reach, leaving an element that is reachable
\* from the cycle but not on it.
C8_Witness ==
    /\ phase = "extract"
    /\ Stopped
    /\ HasCycle(built)
    /\ Len(Flatten(hist)) = 1
    /\ \E x \in DOMAIN top : ~OnCycle(built, x)

-----------------------------------------------------------------------------
(* Further properties, public calls in any order (Spec)                    *)

\* C11: an add_dependency(p, s) step increases len() by the number of
\* distinct elements among {p, s} that were not tracked before the call,
\* removes no element, and leaves both p and s tracked.
C11_AddDependencyGrowth ==
    [][ (last'.op = "add_dependency") =>
            LET p == last'.a
                s == last'.b
            IN  /\ len(top') = len(top) + Cardinality({p, s} \ DOMAIN top)
                /\ DOMAIN top \subseteq DOMAIN top'
                /\ p \in DOMAIN top'
                /\ s \in DOMAIN top' ]_vars

\* C11 witness: add_dependency(p, s) with p # s was called on the empty graph
\* and tracks two elements, the successor with one pending predecessor.
C11_Witness ==
    /\ last.op = "add_dependency"
    /\ last.a # last.b
    /\ DOMAIN top = {last.a, last.b}
    /\ top[last.a] = [num_prec |-> 0, succ |-> {last.b}]
    /\ top[last.b] = [num_prec |-> 1, succ |-> {}]

\* x is tracked and lists itself as a successor.
HasSelfEdge(t, x) == x \in DOMAIN t /\ x \in t[x].succ

\* C13: add_dependency(x, x) leaves x tracked with a self edge and num_prec
\* >= 1, and from then on every step of insert, add_dependency, pop and
\* pop_all keeps x tracked with num_prec >= 1, does not return x, leaves
\* len() above 0 and runs no decrement on a zero count.
C13_SelfLoopStuck ==
    /\ [](\A x \in DOMAIN top :
              x \in top[x].succ => (top[x].num_prec >= 1 /\ ~underflow))
    /\ [][ /\ (last'.op = "add_dependency" /\ last'.a = last'.b) =>
                   HasSelfEdge(top', last'.a)
            /\ \A x \in DOMAIN top :
                   x \in top[x].succ =>
                       /\ x \in DOMAIN top'
                       /\ x \in top'[x].succ
                       /\ \A i \in DOMAIN last'.retv : last'.retv[i] # x ]_vars

\* C13 witness: a pop_all returned two elements and the third, which has a
\* self edge, is still tracked with exactly its own edge pending.
C13_Witness ==
    /\ IsPopAllCall
    /\ Len(last.retv) = 2
    /\ \E x \in DOMAIN top : HasSelfEdge(top, x) /\ top[x].num_prec = 1
    /\ ~underflow

\* C16 as stated: num_prec of X equals the number of OTHER tracked elements
\* Y # X whose succ set contains X.
C16_AsStated ==
    \A x \in DOMAIN top :
        top[x].num_prec = Cardinality({y \in (DOMAIN top) \ {x} : x \in top[y].succ})

\* C16 amended: num_prec of X equals the number of other tracked elements
\* whose succ set contains X, plus one if X's own succ set contains X.
C16_OthersPlusSelf ==
    \A x \in DOMAIN top :
        top[x].num_prec =
            Cardinality({y \in (DOMAIN top) \ {x} : x \in top[y].succ})
                + (IF x \in top[x].succ THEN 1 ELSE 0)

\* C16 witness: an element with a self edge and one other tracked
\* predecessor has num_prec 2.
C16_Witness ==
    \E x \in DOMAIN top :
        /\ x \in top[x].succ
        /\ Cardinality(Preds(top, x) \ {x}) = 1
        /\ top[x].num_prec = 2

\* C17: no `num_prec -= 1` run by a public call found a zero count, and the
\* decrements a removal in the current state would run all find a count of
\* at least 1; a recorded successor that is not tracked is skipped: adding
\* such a reference to the removed record changes nothing in remove's result.
C17_NoUnderflow ==
    /\ ~underflow
    /\ \A k \in DOMAIN top :
          top[k].num_prec = 0 =>
              /\ \A s \in (top[k].succ \cap DOMAIN top) \ {k} : top[s].num_prec >= 1
              /\ ~remove(top, k).underflow
              /\ \A gone \in Elems \ DOMAIN top :
                    remove([top EXCEPT ![k].succ = @ \cup {gone}], k) = remove(top, k)

\* C17 witness: a pop_all removed two predecessors of one element, whose
\* count went down to 0 without underflow.
C17_Witness ==
    /\ IsPopAllCall
    /\ Len(last.retv) = 2
    /\ ~underflow
    /\ \E x \in DOMAIN top : top[x].num_prec = 0 /\ top[x].succ = {}
    /\ len(top) = 1

\* C19: every element in the succ set of a tracked element is tracked, and
\* no removal pop or pop_all can run meets an untracked successor: a ready
\* element is not its own successor and no successor of a ready element is
\* ready (so none is removed earlier in the same pop_all).
C19_NoStaleSuccessors ==
    /\ \A x \in DOMAIN top : top[x].succ \subseteq DOMAIN top
    /\ \A k \in DOMAIN top :
          top[k].num_prec = 0 =>
              \A s \in top[k].succ : s # k /\ top[s].num_prec # 0

\* C19 witness: after a pop, a tracked element still records a tracked
\* successor.
C19_Witness ==
    /\ IsPopCall
    /\ last.retv # <<>>
    /\ \E x \in DOMAIN top : top[x].succ # {} /\ top[x].succ \subseteq DOMAIN top

-----------------------------------------------------------------------------
(* Further properties, build then extract (ExtractSpec)                    *)

\* C14: from a graph with n tracked elements, pop (Iterator::next) succeeds
\* at most n times; after n successes, and after a None, the next call
\* returns None and leaves the graph unchanged; None comes only on an empty
\* graph or one whose remaining edges contain a cycle.
C14_NextIsFinite ==
    (phase = "extract" /\ PopsOnly) =>
        /\ Len(Flatten(hist)) <= len(built)
        /\ len(top) = len(built) - Len(Flatten(hist))
        /\ (Len(Flatten(hist)) = len(built) \/ Stopped) =>
              \A found \in FirstReady(top) :
                  pop(top, found) = [top |-> top, ret |-> <<>>, underflow |-> FALSE]
        /\ Stopped => (is_empty(top) \/ HasCycle(top))

\* C14 witness: next() returned two elements and then None on a graph of
\* three elements, the last of which is stuck on a cycle.
C14_Witness ==
    /\ phase = "extract"
    /\ PopsOnly
    /\ len(built) = 3
    /\ Len(hist) = 3
    /\ hist[3].ret = <<>>
    /\ len(top) = 1

\* The graph left by calling pop_all until it returns an empty vector.
RECURSIVE DrainByPopAll(_)
DrainByPopAll(t) ==
    IF Ready(t) = {}
    THEN t
    ELSE DrainByPopAll(pop_all(t, CHOOSE keys \in IterOrders(Ready(t)) : TRUE).top)

\* C20: when extraction of a built graph has stopped, whatever choices pop
\* made and however pop and pop_all were mixed, the elements still tracked
\* are those left by calling pop_all until it returns an empty vector, and
\* the elements returned are all the others.
C20_Confluent ==
    (phase = "extract" /\ Stopped) =>
        /\ DOMAIN top = DOMAIN DrainByPopAll(built)
        /\ Range(Flatten(hist)) = (DOMAIN built) \ DOMAIN DrainByPopAll(built)

\* C20 witness: a graph with two ready elements and a third left behind was
\* extracted by pop alone, which had a choice at its first call.
C20_Witness ==
    /\ phase = "extract"
    /\ Stopped
    /\ PopsOnly
    /\ Cardinality({k \in DOMAIN built : built[k].num_prec = 0}) = 2
    /\ Len(Flatten(hist)) = 2
    /\ len(top) = 1

-----------------------------------------------------------------------------
(* Properties of from_iter (FromIterSpec)                                  *)

\* C12: for every input sequence of integers, from_iter tracks exactly the
\* distinct input values, registers the edge a -> b exactly for the pairs
\* a < b of input values (none between equal values), and next() until None
\* returns the distinct input values in strictly ascending order and leaves
\* the graph empty.
C12_FromIterSorts ==
    (phase = "extract" /\ last.op = "from_iter") =>
        LET values == Range(last.a)
            order  == Flatten(hist)
        IN  /\ DOMAIN built = values
            /\ \A a, b \in values : (b \in built[a].succ) <=> (a < b)
            /\ \A a \in values : built[a].succ \subseteq values
            /\ \A i \in 1..Len(order) :
                  /\ order[i] \in values
                  /\ \A j \in 1..(i - 1) : order[j] < order[i]
                  /\ \A x \in values : x < order[i] => \E j \in 1..(i - 1) : order[j] = x
            /\ Stopped => (Range(order) = values /\ is_empty(top))

\* C12 witness: the input 2, 1, 1, 3 (out of order, with a duplicate) was
\* extracted as 1, 2, 3, None.
C12_Witness ==
    /\ phase = "extract"
    /\ last.op = "from_iter"
    /\ last.a = <<2, 1, 1, 3>>
    /\ Stopped
    /\ Flatten(hist) = <<1, 2, 3>>

-----------------------------------------------------------------------------
(* Properties of the element lifecycle (LifeSpec)                          *)

\* C18 as stated: over any sequence of operations no element is returned by
\* pop / pop_all a second time.
C18_AsStated == \A e \in DOMAIN returned : returned[e] <= 1

\* C18 amended: insert and add_dependency leave the elements they mention
\* tracked and track no other; an element leaves the tracked set only in the
\* step that returns it from pop or pop_all; every returned element was
\* tracked when the call began, is returned once by that call and is
\* untracked afterwards, so it is returned again only after a later insert
\* or add_dependency has mentioned it again.
C18_Lifecycle ==
    [][ /\ (last'.op = "insert") =>
               /\ last'.a \in DOMAIN top'
               /\ (DOMAIN top') \ (DOMAIN top) \subseteq {last'.a}
        /\ (last'.op = "add_dependency") =>
               /\ {last'.a, last'.b} \subseteq DOMAIN top'
               /\ (DOMAIN top') \ (DOMAIN top) \subseteq {last'.a, last'.b}
        /\ (last'.op \in {"pop", "pop_all"}) => DOMAIN top' \subseteq DOMAIN top
        /\ (DOMAIN top) \ (DOMAIN top') = Range(last'.retv)
        /\ Len(last'.retv) = Cardinality(Range(last'.retv))
        /\ \A e \in DOMAIN returned :
               /\ e \in Range(last'.retv) =>
                     returned'[e] = (IF returned[e] = 0 THEN 1 ELSE 2)
               /\ e \notin Range(last'.retv) => returned'[e] = returned[e] ]_vars

\* C18 witness: an element was just returned for the second time and is not
\* tracked.
C18_Witness ==
    /\ last.op \in {"pop", "pop_all"}
    /\ \E e \in Range(last.retv) : returned[e] = 2 /\ e \notin DOMAIN top

=============================================================================
